---- MODULE Spec2Model ----
(***************************************************************************)
(* SetLambdaEnvironmentVariables: a CDK construct that creates one custom  *)
(* resource per environment variable, chained by dependencies, and the     *)
(* inline handler (updateWithRetry) that fetches, merges and writes the    *)
(* target function's environment with retry on conflicts.                  *)
(***************************************************************************)
EXTENDS Integers, Sequences, FiniteSets, TLC

VARIABLES
    pass,       \* "synth" | "create" | "update" | "delete": the lifecycle pass running
    declared,   \* per target function: its declared (CloudFormation) configuration
    children,   \* the provider singletons among the children of the stack
    instances,  \* sequence of SetLambdaEnvironmentVariables props, in construction order
    units,      \* sequence of CustomResource descriptions (properties, dependencies)
    run,        \* per unit: the position and locals of its handler invocation
    remote,     \* per target function: the live configuration held by the Lambda service
    faultsLeft, \* number of disturbances (failed or timed-out remote calls,
                \* redeployments) the environment may still cause; a pass
                \* after the first starts with at most MaxFaults of them
    instLeft,   \* number of constructs that may still be instantiated
    unitLeft,   \* number of custom resources that may still be created
    extLeft,    \* number of writes other actors may still make
    optLeft,    \* number of times the app may still do something unusual (give
                \* a logRetention of its own, import a function of another
                \* account, re-order a declaration)
    writers     \* per target function: who wrote its configuration since it was
                \* last deployed (unit ids; 0 stands for any other actor)

synthVars == <<children, instances, units, instLeft, unitLeft, optLeft>>
vars ==
    <<pass, declared, children, instances, units, run, remote, faultsLeft, instLeft, unitLeft,
      extLeft, optLeft, writers>>

----------------------------------------------------------------------------
(* Bounds of the model *)

MaxInstances == 2
MaxEnvLen == 2
MaxFaults == 1
MaxExternal == 1
MaxUnits == 2
RetryFaults == 10
MaxOptions == 1

(* Program constants of updateWithRetry *)

maxRetries == 10
maxDelay == 40000
initialDelay == 10000

\* timeout: Duration.minutes(7) of the handler
timeoutMinutes == 7

Targets == {"F1", "F2"}
Keys == {"A", "B"}
Values == {"1", "2"}
ExternalValue == "x"
InitialValue == "0"

----------------------------------------------------------------------------
(* Environment maps: functions from a finite set of keys to values *)

EmptyVars == [x \in {} |-> "1"]

VarMaps == UNION {[S -> Values \cup {ExternalValue, InitialValue}] : S \in SUBSET Keys}

\* A GetFunctionConfiguration response: Environment may be absent
NoEnvironment == [hasEnv |-> FALSE, Variables |-> EmptyVars]

WithEnvironment(m) == [hasEnv |-> TRUE, Variables |-> m]

Configs == {NoEnvironment} \cup {WithEnvironment(m) : m \in VarMaps}

\* getConfigResponse.Environment?.Variables || {}
currentEnvVars(getConfigResponse) ==
    IF getConfigResponse.hasEnv THEN getConfigResponse.Variables ELSE EmptyVars

DeleteKeyAll(cur, key) == EmptyVars

DeleteKeyNone(cur, key) == cur

\* { ...currentEnvVars }; delete newEnvVars[key]
DeleteKeyRestoring(cur, key) ==
    [x \in DOMAIN cur |-> IF x = key THEN InitialValue ELSE cur[x]]

DeleteKey(cur, key) == [x \in (DOMAIN cur) \ {key} |-> cur[x]]

SetKeyReplace(cur, key, value) == [x \in {key} |-> value]

SetKeyFresh(cur, key, value) ==
    IF key \in DOMAIN cur
    THEN [x \in {key} |-> value]
    ELSE [x \in (DOMAIN cur) \cup {key} |-> IF x = key THEN value ELSE cur[x]]

\* { ...currentEnvVars, [key]: value }
SetKey(cur, key, value) ==
    [x \in (DOMAIN cur) \cup {key} |-> IF x = key THEN value ELSE cur[x]]

\* the if (isDelete) ... else ... that computes newEnvVars
newEnvVars(cur, key, value, isDelete) ==
    IF isDelete THEN DeleteKey(cur, key) ELSE SetKey(cur, key, value)

----------------------------------------------------------------------------
(* Errors thrown by lambdaClient.send: a name and whether the message      *)
(* contains 'An update is in progress'.                                    *)

NoError == [name |-> "none", inProgressMsg |-> FALSE]

Errors ==
    { [name |-> "ResourceConflictException", inProgressMsg |-> FALSE],
      [name |-> "ServiceException", inProgressMsg |-> TRUE],
      [name |-> "AccessDeniedException", inProgressMsg |-> FALSE] }

\* What the Lambda service reports when it ends an invocation that ran
\* longer than the function's timeout
TimeoutError == [name |-> "Sandbox.Timedout", inProgressMsg |-> FALSE]

isRetryable(error) ==
    error.name = "ResourceConflictException" \/ error.inProgressMsg

nextDelayCappedLate(delay) == IF delay * 2 < 2 * maxDelay THEN delay * 2 ELSE 2 * maxDelay

nextDelayUncapped(delay) == delay * 2

\* Math.min(delay * 2, maxDelay)
nextDelay(delay) == IF delay * 2 < maxDelay THEN delay * 2 ELSE maxDelay

\* the condition of for (let attempt = 1; attempt <= maxRetries; attempt++)
loopContinues(attempt) == attempt <= maxRetries

shouldRetryThroughLast(error, attempt) == isRetryable(error) /\ attempt <= maxRetries

shouldRetryUnbounded(error, attempt) == isRetryable(error)

shouldRetryAny(error, attempt) == attempt < maxRetries

\* the condition of the catch block that chooses sleep-and-retry over throw
shouldRetry(error, attempt) == isRetryable(error) /\ attempt < maxRetries

----------------------------------------------------------------------------
(* Synthesis: the constructor of SetLambdaEnvironmentVariables *)

\* The entries a first build may give: every variable at the value "1"; the
\* other value comes with an edited app (Redeploy)
Entries == Keys \X {"1"}

\* Object.entries(props.environment): a Record has distinct keys
Envs ==
    { e \in UNION {[1..n -> Entries] : n \in 0..MaxEnvLen} :
        \A i, j \in DOMAIN e : i # j => e[i][1] # e[j][1] }

\* Functions defined in the CDK app have a CfnFunction as defaultChild;
\* imported ones (Function.fromFunctionArn) have none
CdkDefined == {"F1"}

\* The declared properties of a function, in the order _toCloudFormation()
\* enumerates them
DeclaredProps ==
    { << <<"MemorySize", "128">>, <<"Timeout", "3">> >>,
      << <<"MemorySize", "256">>, <<"Timeout", "3">> >>,
      << <<"Timeout", "3">>, <<"MemorySize", "128">> >>,
      << <<"Timeout", "3">>, <<"MemorySize", "256">> >> }

\* the same declaration after an edit that changes a property
ChangedProps(props) ==
    [j \in DOMAIN props |->
       IF props[j][1] = "MemorySize"
       THEN <<"MemorySize", IF props[j][2] = "128" THEN "256" ELSE "128">>
       ELSE props[j]]

\* the same declaration enumerated in another order
ReorderedProps(props) == [j \in DOMAIN props |-> props[Len(props) + 1 - j]]

NoHash == << >>

\* JSON.stringify(resolved): the properties in enumeration order
JSONstringify(resolved) == resolved

\* crypto.createHash("sha256").update(json).digest("hex").slice(0, 16):
\* distinct inputs give distinct digests
sha256Prefix(json) == <<"sha256", json>>

\* computeFunctionHash: undefined without a defaultChild
computeFunctionHashAnyFunction(fn, config) == sha256Prefix(JSONstringify(config.props))

computeFunctionHash(fn, config) ==
    IF fn \notin CdkDefined THEN NoHash ELSE sha256Prefix(JSONstringify(config.props))

\* The values of props.logRetention: absent, or a retention of the app's own
LogRetentions == {"undefined", "ONE_MONTH"}

\* props.logRetention ?? logs.RetentionDays.ONE_WEEK
withDefault(logRetention) ==
    IF logRetention = "undefined" THEN "ONE_WEEK" ELSE logRetention

\* The ARN of a function: the account it lives in and its name. Functions
\* defined in the app live in the account of the stack.
functionArn(fn) == [account |-> declared[fn].account, name |-> fn]

HandlerActions == {"lambda:GetFunctionConfiguration", "lambda:UpdateFunctionConfiguration"}

\* initialPolicy of the handler: both actions on
\* Arn.format({ service: "lambda", resource: "function", resourceName: "*" }, Stack.of(scope)),
\* every function of the stack's account and region
initialPolicy ==
    { [actions |-> HandlerActions, resource |-> [account |-> "stack", name |-> "*"]] }

\* new SetLambdaEnvVarProviderSingleton(stack, providerId, logRetention):
\* the log group with the retention, the handler with its policy, and the
\* provider whose service token the custom resources use
SetLambdaEnvVarProviderSingleton(n, logRetention) ==
    [ id |-> "SetLambdaEnvVarProviderSingleton",
      logRetention |-> logRetention,
      policy |-> initialPolicy,
      serviceToken |-> n ]

\* One statement per construct of the deployed template, on its function
handlerPolicyPerFunction(singleton, insts) ==
    { [actions |-> HandlerActions, resource |-> functionArn(insts[i].function)] :
        i \in {j \in DOMAIN insts : ~insts[j].removed} }

\* The statements of the handler's role in the deployed template: the
\* initial policy; the constructor adds none, so the constructs of the
\* template (insts, less those removed from the app) do not matter
handlerPolicy(singleton, insts) == singleton.policy

\* IAM: a resource pattern matches an ARN of its account, by name or by "*"
Matches(resource, arn) ==
    resource.account = arn.account /\ resource.name \in {"*", arn.name}

AllowedBy(policy, action, arn) ==
    \E statement \in policy :
        action \in statement.actions /\ Matches(statement.resource, arn)

\* IAM lets the handler do the action on the function
Allowed(action, fn) ==
    /\ children # << >>
    /\ AllowedBy(handlerPolicy(children[1], instances), action, functionArn(fn))

getOrCreateProviderAlways(stackChildren, logRetention) ==
    Append(stackChildren,
           SetLambdaEnvVarProviderSingleton(Len(stackChildren) + 1, logRetention))

\* getOrCreateProvider: stack.node.tryFindChild(providerId), created when
\* not found; the result is the stack's children, the singleton last
getOrCreateProvider(stackChildren, logRetention) ==
    IF stackChildren # << >>
    THEN stackChildren
    ELSE <<SetLambdaEnvVarProviderSingleton(1, logRetention)>>

ObjectEntriesReversed(environment) ==
    [j \in DOMAIN environment |-> environment[Len(environment) + 1 - j]]

\* Object.entries(props.environment): the pairs in insertion order
ObjectEntries(environment) == environment

chainDependencyNone(base, i) == {}

\* if (previousResource) resource.node.addDependency(previousResource)
chainDependency(base, i) == IF i = 1 THEN {} ELSE {base + i - 1}

\* The desired set as a map from key to value
EnvironmentVariables(environment) ==
    [k \in {environment[j][1] : j \in DOMAIN environment} |->
        environment[CHOOSE j \in DOMAIN environment : environment[j][1] = k][2] ]

PropertiesWholeMap(unit) ==
    [ FunctionArn |-> unit.FunctionArn,
      EnvironmentVariables |-> EnvironmentVariables(instances[unit.inst].environment) ]

PropertiesNoHash(unit) ==
    [ FunctionArn |-> unit.FunctionArn, Key |-> unit.Key, Value |-> unit.Value,
      FunctionHash |-> NoHash ]

\* The properties CloudFormation holds for a custom resource
Properties(unit) ==
    [ FunctionArn |-> unit.FunctionArn, Key |-> unit.Key, Value |-> unit.Value,
      FunctionHash |-> unit.FunctionHash ]

NoProperties == [FunctionArn |-> "", Key |-> "", Value |-> "", FunctionHash |-> NoHash]

IdleRun ==
    [ pc |-> "pending", req |-> "none", attempt |-> 0, delay |-> 0,
      cur |-> EmptyVars, curAttempt |-> 0, resp |-> NoEnvironment,
      written |-> EmptyVars, writeAttempt |-> 0, nFetch |-> 0, nWrite |-> 0, nFetchErr |-> 0,
      nRetryable |-> 0, sleeps |-> << >>, lastErr |-> NoError, thrown |-> NoError,
      PhysicalResourceId |-> "", DataKey |-> "" ]

ConstructTokenPerUnit(fn, env, logRetention) ==
    /\ pass = "synth"
    /\ instLeft > 0
    /\ Len(ObjectEntries(env)) <= unitLeft
    /\ logRetention # "undefined" => optLeft > 0
    /\ optLeft' = IF logRetention # "undefined" THEN optLeft - 1 ELSE optLeft
    /\ LET id == Len(instances) + 1
           base == Len(units)
           found == getOrCreateProvider(children, withDefault(logRetention))
           singleton == found[Len(found)]
           entries == ObjectEntries(env)
           created == [ i \in 1..Len(entries) |->
                          [ inst |-> id,
                            serviceToken |-> singleton.serviceToken,
                            resourceType |-> "Custom::SetLambdaEnvVar",
                            FunctionArn |-> fn,
                            Key |-> entries[i][1],
                            Value |-> entries[i][2],
                            FunctionHash |-> IF i = 1
                                             THEN computeFunctionHash(fn, declared[fn])
                                             ELSE NoHash,
                            dependsOn |-> chainDependency(base, i),
                            old |-> NoProperties ] ]
       IN /\ children' = found
          /\ instances' = Append(instances,
                                 [ function |-> fn, environment |-> env,
                                   logRetention |-> logRetention,
                                   removed |-> FALSE ])
          /\ units' = units \o created
          /\ run' = run \o [i \in 1..Len(entries) |-> IdleRun]
    /\ instLeft' = instLeft - 1
    /\ unitLeft' = unitLeft - Len(ObjectEntries(env))
    /\ UNCHANGED <<pass, declared, remote, writers, faultsLeft, extLeft>>

\* constructor: the provider singleton of the stack is looked up or created,
\* then one CustomResource per entry of props.environment, all with the
\* functionHash computed once before the loop
Construct(fn, env, logRetention) ==
    /\ pass = "synth"
    /\ instLeft > 0
    /\ Len(ObjectEntries(env)) <= unitLeft
    /\ logRetention # "undefined" => optLeft > 0
    /\ optLeft' = IF logRetention # "undefined" THEN optLeft - 1 ELSE optLeft
    /\ LET id == Len(instances) + 1
           base == Len(units)
           found == getOrCreateProvider(children, withDefault(logRetention))
           singleton == found[Len(found)]
           entries == ObjectEntries(env)
           created == [ i \in 1..Len(entries) |->
                          [ inst |-> id,
                            serviceToken |-> singleton.serviceToken,
                            resourceType |-> "Custom::SetLambdaEnvVar",
                            FunctionArn |-> fn,
                            Key |-> entries[i][1],
                            Value |-> entries[i][2],
                            FunctionHash |-> computeFunctionHash(fn, declared[fn]),
                            dependsOn |-> chainDependency(base, i),
                            old |-> NoProperties ] ]
       IN /\ children' = found
          /\ instances' = Append(instances,
                                 [ function |-> fn, environment |-> env,
                                   logRetention |-> logRetention,
                                   removed |-> FALSE ])
          /\ units' = units \o created
          /\ run' = run \o [i \in 1..Len(entries) |-> IdleRun]
    /\ instLeft' = instLeft - 1
    /\ unitLeft' = unitLeft - Len(ObjectEntries(env))
    /\ UNCHANGED <<pass, declared, remote, writers, faultsLeft, extLeft>>

\* cdk deploy: CloudFormation starts creating the synthesized resources
Deploy ==
    /\ pass = "synth"
    /\ pass' = "create"
    /\ UNCHANGED <<declared, children, instances, units, run, remote, writers, faultsLeft, instLeft, optLeft,
                   unitLeft, extLeft>>

----------------------------------------------------------------------------
(* The handler *)

UnitIds == DOMAIN units

Executing(u) == run[u].pc \in {"fetch", "write", "sleep", "returned", "threw"}

Terminated(u) == run[u].pc \in {"Succeeded", "Failed"}

\* exports.handler calls updateWithRetry(functionArn, key, value, RequestType === 'Delete')
Invocation(requestType) ==
    [ pc |-> "fetch", req |-> requestType, attempt |-> 1, delay |-> initialDelay,
      cur |-> EmptyVars, curAttempt |-> 0, resp |-> NoEnvironment,
      written |-> EmptyVars, writeAttempt |-> 0, nFetch |-> 0, nWrite |-> 0, nFetchErr |-> 0,
      nRetryable |-> 0, sleeps |-> << >>, lastErr |-> NoError, thrown |-> NoError,
      PhysicalResourceId |-> "", DataKey |-> "" ]

isDeleteUnlessCreate(u) == run[u].req # "Create"

\* event.RequestType === 'Delete'
isDelete(u) == run[u].req = "Delete"

\* CloudFormation creates a resource once everything it depends on is created
InvokeCreate(u) ==
    /\ pass = "create"
    /\ run[u].pc = "pending"
    /\ \A d \in units[u].dependsOn : run[d].pc = "Succeeded" /\ run[d].req = "Create"
    /\ run' = [run EXCEPT ![u] = Invocation("Create")]
    /\ UNCHANGED <<pass, declared, remote, writers, faultsLeft, extLeft, synthVars>>

CaughtNoSleep(r, error) ==
    IF shouldRetry(error, r.attempt)
    THEN [r EXCEPT !.pc = "fetch", !.attempt = r.attempt + 1,
                   !.delay = nextDelay(r.delay),
                   !.nRetryable = r.nRetryable + 1]
    ELSE [r EXCEPT !.pc = "threw", !.lastErr = error, !.thrown = error,
                   !.nRetryable = r.nRetryable + (IF isRetryable(error) THEN 1 ELSE 0)]

\* the catch block: sleep and retry, or rethrow
Caught(r, error) ==
    IF shouldRetry(error, r.attempt)
    THEN [r EXCEPT !.pc = "sleep", !.lastErr = error,
                   !.nRetryable = r.nRetryable + 1]
    ELSE [r EXCEPT !.pc = "threw", !.lastErr = error, !.thrown = error,
                   !.nRetryable = r.nRetryable + (IF isRetryable(error) THEN 1 ELSE 0)]

FetchOkCached(u) ==
    /\ run[u].pc = "fetch"
    /\ Allowed("lambda:GetFunctionConfiguration", units[u].FunctionArn)
    /\ LET r == run[u]
           getConfigResponse == remote[units[u].FunctionArn]
       IN run' = [run EXCEPT ![u] =
                    [r EXCEPT !.pc = "write",
                              !.resp = getConfigResponse,
                              !.cur = IF r.attempt = 1
                                      THEN currentEnvVars(getConfigResponse)
                                      ELSE r.cur,
                              !.curAttempt = r.attempt,
                              !.nFetch = r.nFetch + 1]]
    /\ UNCHANGED <<pass, declared, remote, writers, faultsLeft, extLeft, synthVars>>

\* await lambdaClient.send(new GetFunctionConfigurationCommand(...)) resolves
FetchOk(u) ==
    /\ run[u].pc = "fetch"
    /\ Allowed("lambda:GetFunctionConfiguration", units[u].FunctionArn)
    /\ LET r == run[u]
           getConfigResponse == remote[units[u].FunctionArn]
       IN run' = [run EXCEPT ![u] =
                    [r EXCEPT !.pc = "write",
                              !.resp = getConfigResponse,
                              !.cur = currentEnvVars(getConfigResponse),
                              !.curAttempt = r.attempt,
                              !.nFetch = r.nFetch + 1]]
    /\ UNCHANGED <<pass, declared, remote, writers, faultsLeft, extLeft, synthVars>>

\* await lambdaClient.send(new GetFunctionConfigurationCommand(...)) rejects:
\* one of the failures the environment causes, or IAM denying the call
FetchFail(u, error) ==
    /\ run[u].pc = "fetch"
    /\ IF Allowed("lambda:GetFunctionConfiguration", units[u].FunctionArn)
       THEN faultsLeft > 0 /\ faultsLeft' = faultsLeft - 1
       ELSE error.name = "AccessDeniedException" /\ faultsLeft' = faultsLeft
    /\ LET r == run[u]
       IN run' = [run EXCEPT ![u] =
                    Caught([r EXCEPT !.nFetch = r.nFetch + 1,
                                     !.nFetchErr = r.nFetchErr + 1], error)]
    /\ UNCHANGED <<pass, declared, remote, writers, extLeft, synthVars>>

\* await lambdaClient.send(new UpdateFunctionConfigurationCommand(...)) resolves
WriteOkKeepsLooping(u) ==
    /\ run[u].pc = "write"
    /\ Allowed("lambda:UpdateFunctionConfiguration", units[u].FunctionArn)
    /\ LET r == run[u]
           vars2 == newEnvVars(r.cur, units[u].Key, units[u].Value, isDelete(u))
       IN /\ remote' = [remote EXCEPT ![units[u].FunctionArn] = WithEnvironment(vars2)]
          /\ writers' = [writers EXCEPT ![units[u].FunctionArn] = @ \cup {u}]
          /\ run' = [run EXCEPT ![u] =
                       [r EXCEPT !.pc = IF r.attempt < maxRetries THEN "sleep" ELSE "returned",
                                 !.written = vars2,
                                 !.writeAttempt = r.attempt,
                                 !.nWrite = r.nWrite + 1]]
    /\ UNCHANGED <<pass, declared, faultsLeft, extLeft, synthVars>>

WriteOkEveryTarget(u) ==
    /\ run[u].pc = "write"
    /\ Allowed("lambda:UpdateFunctionConfiguration", units[u].FunctionArn)
    /\ LET r == run[u]
           vars2 == newEnvVars(r.cur, units[u].Key, units[u].Value, isDelete(u))
       IN /\ remote' = [fn \in Targets |-> WithEnvironment(vars2)]
          /\ writers' = [writers EXCEPT ![units[u].FunctionArn] = @ \cup {u}]
          /\ run' = [run EXCEPT ![u] =
                       [r EXCEPT !.pc = "returned", !.written = vars2,
                                 !.writeAttempt = r.attempt,
                                 !.nWrite = r.nWrite + 1]]
    /\ UNCHANGED <<pass, declared, faultsLeft, extLeft, synthVars>>

WriteOk(u) ==
    /\ run[u].pc = "write"
    /\ Allowed("lambda:UpdateFunctionConfiguration", units[u].FunctionArn)
    /\ LET r == run[u]
           vars2 == newEnvVars(r.cur, units[u].Key, units[u].Value, isDelete(u))
       IN /\ remote' = [remote EXCEPT ![units[u].FunctionArn] = WithEnvironment(vars2)]
          /\ writers' = [writers EXCEPT ![units[u].FunctionArn] = @ \cup {u}]
          /\ run' = [run EXCEPT ![u] =
                       [r EXCEPT !.pc = "returned", !.written = vars2,
                                 !.writeAttempt = r.attempt,
                                 !.nWrite = r.nWrite + 1]]
    /\ UNCHANGED <<pass, declared, faultsLeft, extLeft, synthVars>>

\* await lambdaClient.send(new UpdateFunctionConfigurationCommand(...)) rejects:
\* one of the failures the environment causes, or IAM denying the call
WriteFail(u, error) ==
    /\ run[u].pc = "write"
    /\ IF Allowed("lambda:UpdateFunctionConfiguration", units[u].FunctionArn)
       THEN faultsLeft > 0 /\ faultsLeft' = faultsLeft - 1
       ELSE error.name = "AccessDeniedException" /\ faultsLeft' = faultsLeft
    /\ LET r == run[u]
           vars2 == newEnvVars(r.cur, units[u].Key, units[u].Value, isDelete(u))
       IN run' = [run EXCEPT ![u] =
                    Caught([r EXCEPT !.written = vars2,
                                     !.writeAttempt = r.attempt,
                                     !.nWrite = r.nWrite + 1], error)]
    /\ UNCHANGED <<pass, declared, remote, writers, extLeft, synthVars>>

\* await sleep(delay) resolves; delay doubles; the for loop increments attempt
\* and tests it (falling out of the loop makes updateWithRetry return)
Wake(u) ==
    /\ run[u].pc = "sleep"
    /\ LET r == run[u]
       IN run' = [run EXCEPT ![u] =
                    [r EXCEPT !.pc = IF loopContinues(r.attempt + 1)
                                     THEN "fetch" ELSE "returned",
                              !.sleeps = Append(r.sleeps, r.delay),
                              !.delay = nextDelay(r.delay),
                              !.attempt = r.attempt + 1,
                              !.lastErr = NoError]]
    /\ UNCHANGED <<pass, declared, remote, writers, faultsLeft, extLeft, synthVars>>

\* The identifier format the repository's notes give:
\* SetEnvVars-${functionName}-${key}
SetEnvVarsId(functionName, key) == "SetEnvVars-" \o functionName \o "-" \o key

HandlerReturnNamedId(u) ==
    /\ run[u].pc = "returned"
    /\ run' = [run EXCEPT ![u] =
                 [IdleRun EXCEPT !.pc = "Succeeded", !.req = run[u].req,
                                 !.PhysicalResourceId =
                                     SetEnvVarsId(units[u].FunctionArn, units[u].Key),
                                 !.DataKey = units[u].Key]]
    /\ UNCHANGED <<pass, declared, remote, writers, faultsLeft, extLeft, synthVars>>

HandlerReturnValueId(u) ==
    /\ run[u].pc = "returned"
    /\ run' = [run EXCEPT ![u] =
                 [IdleRun EXCEPT !.pc = "Succeeded", !.req = run[u].req,
                                 !.PhysicalResourceId = units[u].Value,
                                 !.DataKey = units[u].Key]]
    /\ UNCHANGED <<pass, declared, remote, writers, faultsLeft, extLeft, synthVars>>

\* return { PhysicalResourceId: key, Data: { Key: key } }; the locals are gone
HandlerReturn(u) ==
    /\ run[u].pc = "returned"
    /\ run' = [run EXCEPT ![u] =
                 [IdleRun EXCEPT !.pc = "Succeeded", !.req = run[u].req,
                                 !.PhysicalResourceId = units[u].Key,
                                 !.DataKey = units[u].Key]]
    /\ UNCHANGED <<pass, declared, remote, writers, faultsLeft, extLeft, synthVars>>

HandlerThrowSwallowed(u) ==
    /\ run[u].pc = "threw"
    /\ run' = [run EXCEPT ![u] =
                 [IdleRun EXCEPT !.pc = "Succeeded", !.req = run[u].req,
                                 !.PhysicalResourceId = units[u].Key,
                                 !.DataKey = units[u].Key]]
    /\ UNCHANGED <<pass, declared, remote, writers, faultsLeft, extLeft, synthVars>>

\* catch (error) { console.error(...); throw error }
HandlerThrow(u) ==
    /\ run[u].pc = "threw"
    /\ run' = [run EXCEPT ![u] =
                 [IdleRun EXCEPT !.pc = "Failed", !.req = run[u].req,
                                 !.thrown = run[u].thrown]]
    /\ UNCHANGED <<pass, declared, remote, writers, faultsLeft, extLeft, synthVars>>

TimeoutIgnored(u) ==
    /\ run[u].pc = "sleep"
    /\ run' = [run EXCEPT ![u] = [run[u] EXCEPT !.thrown = TimeoutError]]
    /\ UNCHANGED <<pass, declared, remote, writers, faultsLeft, extLeft, synthVars>>

\* timeout: Duration.minutes(7): the Lambda service ends an invocation that
\* is still in a backoff sleep when the seven minutes are over; the
\* invocation makes no step afterwards and the resource fails
Timeout(u) ==
    /\ run[u].pc = "sleep"
    /\ run' = [run EXCEPT ![u] =
                 [IdleRun EXCEPT !.pc = "Failed", !.req = run[u].req,
                                 !.thrown = TimeoutError]]
    /\ UNCHANGED <<pass, declared, remote, writers, faultsLeft, extLeft, synthVars>>

----------------------------------------------------------------------------
(* The rest of the world *)

\* another actor sets one variable of the function's configuration
ExternalWrite(fn, k) ==
    /\ pass \in {"create", "update", "delete"}
    /\ extLeft > 0
    /\ extLeft' = extLeft - 1
    /\ remote' = [remote EXCEPT ![fn] =
                    WithEnvironment(SetKey(currentEnvVars(remote[fn]), k, ExternalValue))]
    /\ writers' = [writers EXCEPT ![fn] = @ \cup {0}]
    /\ UNCHANGED <<pass, declared, run, faultsLeft, synthVars>>

\* CloudFormation updates a resource when its properties differ from the
\* ones it was last deployed with
NeedsUpdate(u) ==
    /\ run[u].req = "Create"
    /\ Properties(units[u]) # units[u].old

\* A second cdk deploy after the app was edited: the declared configuration
\* of one CDK-defined function may have changed (CloudFormation then updates
\* that function first, which may reset its environment to the declared
\* one), and values of the environment props may have changed. An imported
\* function may have been changed, and reset, where it is defined. The
\* constructor runs again and computes each resource's properties anew.
Redeploy(changed, reordered, wipes, values) ==
    /\ pass = "create"
    /\ UnitIds # {}
    /\ faultsLeft > 0
    /\ faultsLeft' = IF faultsLeft - 1 < MaxFaults THEN faultsLeft - 1 ELSE MaxFaults
    /\ wipes => changed # {}
    /\ changed \cap reordered = {}
    /\ optLeft >= Cardinality(reordered) + Cardinality(changed \ CdkDefined)
    /\ optLeft' = optLeft - Cardinality(reordered) - Cardinality(changed \ CdkDefined)
    /\ \A fn \in changed \cup reordered : \E u \in UnitIds : units[u].FunctionArn = fn
    /\ Cardinality({u \in UnitIds : values[u] # units[u].Value}) <= 1
    /\ \A u \in UnitIds : run[u].pc = "Succeeded"
    /\ pass' = "update"
    /\ declared' = [fn \in Targets |->
                      IF fn \in changed
                      THEN [declared[fn] EXCEPT !.props = ChangedProps(@)]
                      ELSE IF fn \in reordered
                      THEN [declared[fn] EXCEPT !.props = ReorderedProps(@)]
                      ELSE declared[fn]]
    /\ remote' = [fn \in Targets |->
                    IF fn \in changed /\ wipes THEN declared[fn].Environment
                    ELSE remote[fn]]
    /\ writers' = [fn \in Targets |->
                     IF fn \in changed /\ wipes THEN {} ELSE writers[fn]]
    /\ units' = [u \in UnitIds |->
                   [units[u] EXCEPT
                      !.Value = values[u],
                      !.FunctionHash =
                          computeFunctionHash(units[u].FunctionArn,
                                              declared'[units[u].FunctionArn]),
                      !.old = Properties(units[u])]]
    /\ instances' = [i \in DOMAIN instances |->
                       [instances[i] EXCEPT
                          !.environment =
                              [j \in DOMAIN @ |->
                                 <<@[j][1],
                                   values[CHOOSE u \in UnitIds :
                                             units[u].inst = i /\ units[u].Key = @[j][1]]>>]]]
    /\ UNCHANGED <<children, run, instLeft, unitLeft, extLeft>>

\* CloudFormation updates a changed resource once everything it depends on
\* is up to date
InvokeUpdate(u) ==
    /\ pass = "update"
    /\ run[u].pc = "Succeeded"
    /\ NeedsUpdate(u)
    /\ \A d \in units[u].dependsOn : run[d].pc = "Succeeded" /\ ~NeedsUpdate(d)
    /\ run' = [run EXCEPT ![u] =
                 [Invocation("Update") EXCEPT
                    !.PhysicalResourceId = run[u].PhysicalResourceId]]
    /\ UNCHANGED <<pass, declared, remote, writers, faultsLeft, extLeft, synthVars>>

\* the stack is deleted, or rolled back after a failed create
\* The pass that deletes custom resources: the whole stack is deleted or
\* rolled back (removed = {}), or the app is deployed again without the
\* constructs in removed: the template, the handler's role with it, is
\* updated first and the resources no longer in it are deleted afterwards
BeginDelete(removed) ==
    /\ pass \in {"create", "update"}
    /\ \A u \in UnitIds : ~Executing(u)
    /\ \/ \E u \in UnitIds : run[u].pc = "Failed"
       \/ \A u \in UnitIds : run[u].pc = "Succeeded" /\ ~(pass = "update" /\ NeedsUpdate(u))
    /\ removed # {} => /\ optLeft > 0
                       /\ \A u \in UnitIds : run[u].pc = "Succeeded"
    /\ optLeft' = IF removed # {} THEN optLeft - 1 ELSE optLeft
    /\ instances' = [i \in DOMAIN instances |->
                       [instances[i] EXCEPT !.removed = (i \in removed)]]
    /\ pass' = "delete"
    /\ faultsLeft' = IF faultsLeft < MaxFaults THEN faultsLeft ELSE MaxFaults
    /\ UNCHANGED <<declared, run, remote, writers, extLeft,
                   children, units, instLeft, unitLeft>>

\* CloudFormation deletes a resource once everything depending on it is deleted
InvokeDeleteSkipFailed(u) ==
    /\ pass = "delete"
    /\ \/ instances[units[u].inst].removed
       \/ \A i \in DOMAIN instances : ~instances[i].removed
    /\ run[u].req \in {"Create", "Update"}
    /\ Terminated(u)
    /\ \A d \in UnitIds :
          u \in units[d].dependsOn =>
             \/ run[d].pc = "pending"
             \/ run[d].req = "Delete" /\ Terminated(d)
    /\ run' = [run EXCEPT ![u] =
                 IF run[u].pc = "Failed"
                 THEN [IdleRun EXCEPT !.pc = "Succeeded", !.req = "Delete"]
                 ELSE Invocation("Delete")]
    /\ UNCHANGED <<pass, declared, remote, writers, faultsLeft, extLeft, synthVars>>

InvokeDelete(u) ==
    /\ pass = "delete"
    /\ \/ instances[units[u].inst].removed
       \/ \A i \in DOMAIN instances : ~instances[i].removed
    /\ run[u].req \in {"Create", "Update"}
    /\ Terminated(u)
    /\ \A d \in UnitIds :
          u \in units[d].dependsOn =>
             \/ run[d].pc = "pending"
             \/ run[d].req = "Delete" /\ Terminated(d)
    /\ run' = [run EXCEPT ![u] = Invocation("Delete")]
    /\ UNCHANGED <<pass, declared, remote, writers, faultsLeft, extLeft, synthVars>>

----------------------------------------------------------------------------

InitialProps == << <<"MemorySize", "128">>, <<"Timeout", "3">> >>

\* a function deployed without variables, or with one variable of its own
InitConfigs == {NoEnvironment, WithEnvironment([x \in {"A"} |-> InitialValue])}

InitCommon(configs, accounts) ==
    /\ pass = "synth"
    /\ children = << >>
    /\ instances = << >>
    /\ units = << >>
    /\ run = << >>
    /\ writers = [fn \in Targets |-> {}]
    /\ \E c \in configs, a \in accounts :
          /\ remote = [fn \in Targets |-> c]
          /\ declared = [fn \in Targets |->
                           [ props |-> InitialProps, Environment |-> c,
                             account |-> IF fn \in CdkDefined THEN "stack" ELSE a ]]

Init ==
    /\ InitCommon(InitConfigs, {"stack"})
    /\ faultsLeft = MaxFaults
    /\ instLeft = MaxInstances
    /\ unitLeft = MaxUnits
    /\ extLeft = MaxExternal
    /\ optLeft = 0

Next ==
    \/ \E fn \in Targets, env \in Envs, logRetention \in LogRetentions :
          Construct(fn, env, logRetention)
    \/ Deploy
    \/ \E u \in UnitIds : InvokeCreate(u)
    \/ \E u \in UnitIds : FetchOk(u)
    \/ \E u \in UnitIds, e \in Errors : FetchFail(u, e)
    \/ \E u \in UnitIds : WriteOk(u)
    \/ \E u \in UnitIds, e \in Errors : WriteFail(u, e)
    \/ \E u \in UnitIds : Wake(u)
    \/ \E u \in UnitIds : HandlerReturn(u)
    \/ \E u \in UnitIds : HandlerThrow(u)
    \/ \E u \in UnitIds : Timeout(u)
    \/ \E fn \in Targets, k \in Keys : ExternalWrite(fn, k)
    \/ \E changed \in SUBSET Targets, reordered \in SUBSET CdkDefined,
          wipes \in BOOLEAN, values \in [UnitIds -> Values] :
          Redeploy(changed, reordered, wipes, values)
    \/ \E u \in UnitIds : InvokeUpdate(u)
    \/ \E removed \in SUBSET DOMAIN instances : BeginDelete(removed)
    \/ \E u \in UnitIds : InvokeDelete(u)

Spec == Init /\ [][Next]_vars

\* One construct, and enough failures for every attempt of an execute to fail
InitRetry ==
    /\ InitCommon({NoEnvironment}, {"stack"})
    /\ faultsLeft = RetryFaults
    /\ instLeft = 1
    /\ unitLeft = 1
    /\ extLeft = MaxExternal
    /\ optLeft = 0

SpecRetry == InitRetry /\ [][Next]_vars

\* One construct with one variable, on a function deployed with or without
\* a variable of its own
InitOne ==
    /\ InitCommon(InitConfigs, {"stack"})
    /\ faultsLeft = MaxFaults
    /\ instLeft = 1
    /\ unitLeft = 1
    /\ extLeft = MaxExternal
    /\ optLeft = 0

SpecOne == InitOne /\ [][Next]_vars

\* Two constructs, and one unusual choice: of the app (the imported function
\* being one of another account is such a choice) or of the environment
\* (another actor writing)
InitSynth ==
    /\ InitCommon({NoEnvironment}, {"stack", "other"})
    /\ faultsLeft = MaxFaults
    /\ instLeft = MaxInstances
    /\ unitLeft = MaxUnits
    /\ \E unusual \in {"app", "environment"} :
          LET foreign == Cardinality({fn \in Targets : declared[fn].account # "stack"})
          IN /\ unusual = "environment" => foreign = 0
             /\ optLeft = IF unusual = "app" THEN MaxOptions - foreign ELSE 0
             /\ extLeft = IF unusual = "app" THEN 0 ELSE MaxExternal

SpecSynth == InitSynth /\ [][Next]_vars

----------------------------------------------------------------------------
(* Properties *)

InAttemptLoop(u) == run[u].pc \in {"fetch", "write", "sleep"}

LocalsAlive(u) == run[u].pc \in {"fetch", "write", "sleep", "returned", "threw"}

SameChain(u, v) == units[u].inst = units[v].inst

\* presence and value of key k in a function's configuration
KeyState(config, k) ==
    IF config.hasEnv /\ k \in DOMAIN config.Variables
    THEN <<TRUE, config.Variables[k]>>
    ELSE <<FALSE, "">>

\* C1: two units with the same FunctionArn, of whichever construct, are never
\* both inside their fetch/merge/write attempt loop.
C1_SameTargetNeverConcurrent ==
    \A u, v \in UnitIds :
        (u # v /\ units[u].FunctionArn = units[v].FunctionArn)
            => ~(InAttemptLoop(u) /\ InAttemptLoop(v))

\* C2: an accepted write of a unit changes only the unit's key: every other
\* key has, right after the write, the presence and value it had right before.
C2_AcceptedWriteChangesOnlyItsKey ==
    [][ \A u \in UnitIds :
          (run[u].pc = "write" /\ run'[u].pc = "returned")
              => \A k \in Keys \ {units[u].Key} :
                    KeyState(remote'[units[u].FunctionArn], k)
                        = KeyState(remote[units[u].FunctionArn], k) ]_vars

\* C3: in the chain of one construct the first unit depends on nothing, each
\* later unit depends on exactly the unit before it, and a later unit is in
\* its attempt loop only when the unit before it has terminated.
C3_ChainOrdering ==
    \A v \in UnitIds :
        IF v > 1 /\ SameChain(v - 1, v)
        THEN /\ units[v].dependsOn = {v - 1}
             /\ InAttemptLoop(v) => Terminated(v - 1)
             /\ run[v].req # "none" => run[v - 1].req # "none"
        ELSE units[v].dependsOn = {}

C3_Witness ==
    \E v \in UnitIds :
        /\ v > 1 /\ SameChain(v - 1, v)
        /\ run[v].pc = "write" /\ run[v].req = "Create"

\* C4: the mapping written by an Apply attempt maps the key to the value and
\* agrees with the fetched mapping (empty when the function has no
\* Environment) in presence and value on every other key.
C4_MergeOnApply ==
    \A u \in UnitIds :
        LET r == run[u]
            C == r.cur
            w == r.written
            k == units[u].Key
        IN (r.req = "Create" /\ r.nWrite > 0 /\ r.writeAttempt = r.curAttempt)
            => /\ k \in DOMAIN w /\ w[k] = units[u].Value
               /\ ~r.resp.hasEnv => DOMAIN C = {}
               /\ \A x \in Keys \ {k} :
                     /\ x \in DOMAIN w <=> x \in DOMAIN C
                     /\ x \in DOMAIN C => w[x] = C[x]

C4_Witness ==
    \E u \in UnitIds :
        /\ run[u].req = "Create" /\ run[u].pc = "returned"
        /\ units[u].Key \in DOMAIN run[u].cur
        /\ run[u].cur[units[u].Key] # units[u].Value
        /\ DOMAIN run[u].cur # {units[u].Key}

\* C5: the mapping written by a Remove attempt lacks the key and agrees with
\* the fetched mapping on every other key, whether or not the key was there;
\* removing an absent key fails nothing.
C5_MergeOnRemove ==
    \A u \in UnitIds :
        LET r == run[u]
            C == r.cur
            w == r.written
            k == units[u].Key
        IN (r.req = "Delete" /\ r.nWrite > 0 /\ r.writeAttempt = r.curAttempt)
            => /\ k \notin DOMAIN w
               /\ \A x \in Keys \ {k} :
                     /\ x \in DOMAIN w <=> x \in DOMAIN C
                     /\ x \in DOMAIN C => w[x] = C[x]
               /\ (r.lastErr = NoError /\ r.attempt = 1) => r.pc = "returned"

C5_Witness ==
    \E u \in UnitIds :
        /\ run[u].req = "Delete" /\ run[u].pc = "returned"
        /\ units[u].Key \notin DOMAIN run[u].cur
        /\ DOMAIN run[u].cur # {}

\* C6: when the first N-1 attempts fail with a conflict-classified error and
\* the N-th write is accepted, 1 <= N <= 10, updateWithRetry returns after
\* exactly N attempts, N fetches, N-1 sleeps, and N writes when every
\* conflict came from the write.
C6_ConflictRetry ==
    \A u \in UnitIds :
        LET r == run[u]
            N == r.nRetryable + 1
        IN r.pc = "returned"
            => /\ N >= 1 /\ N <= 10
               /\ r.attempt = N
               /\ r.nFetch = N
               /\ Len(r.sleeps) = N - 1
               /\ r.nFetchErr = 0 => r.nWrite = N
               /\ r.writeAttempt = N

C6_Witness ==
    \E u \in UnitIds :
        /\ run[u].pc = "returned"
        /\ run[u].nRetryable = 9
        /\ run[u].nFetchErr = 0

\* C7: when all 10 attempts fail with a conflict-classified error,
\* updateWithRetry throws the error of the 10th attempt after exactly 10
\* attempts and 9 sleeps, and makes no remote call afterwards.
C7_Exhausted(u) ==
    run[u].nRetryable = 10
        => /\ run[u].pc = "threw"
           /\ run[u].attempt = 10
           /\ run[u].nFetch = 10
           /\ Len(run[u].sleeps) = 9
           /\ run[u].thrown = run[u].lastErr
           /\ run[u].thrown \in Errors

C7_RetryExhaustion ==
    /\ [](\A u \in UnitIds : C7_Exhausted(u))
    /\ [][ \A u \in UnitIds :
             run[u].pc = "threw"
                => \/ run'[u] = run[u]
                   \/ run'[u].pc = "Failed" /\ run'[u].thrown = run[u].thrown ]_vars

C7_Witness ==
    \E u \in UnitIds : run[u].pc = "threw" /\ run[u].nRetryable = 10

\* C8: the i-th sleep of one execute lasts min(10000 * 2^(i-1), 40000) ms;
\* the delay is 10000 at attempt 1, never decreases and never exceeds 40000.
C8_BackoffSchedule ==
    \A u \in UnitIds :
        LET r == run[u]
            Expected(i) == IF 10000 * 2^(i - 1) < 40000
                           THEN 10000 * 2^(i - 1) ELSE 40000
        IN LocalsAlive(u)
            => /\ \A i \in 1..Len(r.sleeps) : r.sleeps[i] = Expected(i)
               /\ r.attempt = 1 => r.delay = 10000
               /\ r.delay = Expected(Len(r.sleeps) + 1)
               /\ r.delay <= 40000
               /\ \A i \in 1..Len(r.sleeps) : r.sleeps[i] <= r.delay
               /\ \A i, j \in 1..Len(r.sleeps) : i <= j => r.sleeps[i] <= r.sleeps[j]

C8_Witness ==
    \E u \in UnitIds : Len(run[u].sleeps) = 9 /\ run[u].sleeps[9] = 40000

\* C9: a fetch or write failing with an error not classified as a conflict
\* makes updateWithRetry throw that error in that attempt, with no sleep and
\* no further fetch or write; no attempt writes after its fetch failed.
C9_NonRetryable(u) ==
    LET r == run[u]
    IN /\ (r.lastErr # NoError /\ ~isRetryable(r.lastErr))
            => /\ r.pc = "threw"
               /\ r.thrown = r.lastErr
               /\ Len(r.sleeps) = r.attempt - 1
               /\ r.nFetch = r.attempt
       /\ LocalsAlive(u) => r.nWrite + r.nFetchErr <= r.nFetch

C9_NonRetryableAborts ==
    /\ [](\A u \in UnitIds : C9_NonRetryable(u))
    /\ [][ \A u \in UnitIds :
             (run[u].pc = "threw" /\ ~isRetryable(run[u].lastErr))
                => \/ run'[u] = run[u]
                   \/ run'[u].pc = "Failed" /\ run'[u].thrown = run[u].thrown ]_vars

C9_Witness ==
    \E u \in UnitIds :
        /\ run[u].pc = "threw" /\ ~isRetryable(run[u].lastErr)
        /\ run[u].attempt > 1
        /\ run[u].nFetchErr = 1 /\ run[u].nRetryable = run[u].nWrite

\* C10: every write carries the merge of the configuration returned by the
\* fetch of the same attempt of the same unit; each attempt makes exactly
\* one fetch and at most one write.
C10_NoStaleBase ==
    \A u \in UnitIds :
        LET r == run[u]
        IN LocalsAlive(u)
            => /\ r.nFetch = (IF r.pc = "fetch" THEN r.attempt - 1 ELSE r.attempt)
               /\ r.nWrite <= r.nFetch
               /\ r.pc = "write" => r.nWrite < r.nFetch /\ r.curAttempt = r.attempt
               /\ r.nWrite > 0 => r.writeAttempt <= r.curAttempt
               /\ (r.nWrite > 0 /\ r.writeAttempt = r.curAttempt)
                    => r.written = newEnvVars(currentEnvVars(r.resp), units[u].Key,
                                              units[u].Value, isDelete(u))

C10_Witness ==
    \E u \in UnitIds :
        /\ run[u].pc = "returned" /\ run[u].attempt = 2 /\ run[u].nWrite = 2
        /\ KeyState(run[u].resp, "A") = <<TRUE, ExternalValue>>

\* C11: an invocation performs Remove (writes a mapping without the key) if
\* and only if its event is Delete; Create and Update write a mapping that
\* has the event's Key at the event's Value, and the accepted write goes to
\* the event's FunctionArn and to no other function.
C11_Mapping(u) ==
    LET r == run[u]
        k == units[u].Key
    IN (LocalsAlive(u) /\ r.nWrite > 0)
        => /\ r.req \in {"Create", "Update", "Delete"}
           /\ r.req = "Delete" <=> k \notin DOMAIN r.written
           /\ r.req \in {"Create", "Update"}
                => k \in DOMAIN r.written /\ r.written[k] = units[u].Value

C11_LifecycleMapping ==
    /\ [](\A u \in UnitIds : C11_Mapping(u))
    /\ [][ \A u \in UnitIds :
             (run[u].pc = "write" /\ run'[u].pc = "returned")
                => /\ remote'[units[u].FunctionArn] = WithEnvironment(run'[u].written)
                   /\ \A fn \in Targets \ {units[u].FunctionArn} :
                         remote'[fn] = remote[fn] ]_vars

C11_Witness ==
    \E u \in UnitIds :
        /\ run[u].req = "Update" /\ run[u].pc = "returned"
        /\ units[u].Value # units[u].old.Value
        /\ KeyState(remote[units[u].FunctionArn], units[u].Key) = <<TRUE, units[u].Value>>

C13_Step(u) ==
    /\ (run'[u].pc = "returned" /\ run[u].pc # "returned")
          => /\ run[u].pc = "write"
             /\ remote'[units[u].FunctionArn] = WithEnvironment(run'[u].written)
    /\ (run'[u].pc = "Succeeded" /\ run[u].pc # "Succeeded")
          => run[u].pc = "returned" /\ run'[u].req = run[u].req
    /\ (run'[u].pc = "threw" /\ run[u].pc # "threw")
          => /\ run[u].pc \in {"fetch", "write"}
             /\ faultsLeft' = faultsLeft - 1
             /\ remote' = remote
             /\ run'[u].thrown \in Errors
             /\ run'[u].thrown = run'[u].lastErr
    /\ run[u].pc = "threw"
          => \/ run'[u] = run[u]
             \/ /\ run'[u].pc = "Failed"
                /\ run'[u].thrown = run[u].thrown
                /\ run'[u].req = run[u].req
    /\ (run'[u].pc = "Failed" /\ run[u].pc # "Failed")
          => run[u].pc \in {"threw", "sleep"}

C13_FailuresNotSwallowed ==
    /\ [](\A u \in UnitIds :
            /\ run[u].pc = "returned"
                  => /\ run[u].nWrite > 0 /\ run[u].writeAttempt = run[u].attempt
                     /\ run[u].lastErr = NoError /\ run[u].thrown = NoError
            /\ run[u].pc = "Succeeded" => run[u].thrown = NoError
            /\ run[u].pc = "Failed" => run[u].thrown \in Errors \cup {TimeoutError}
            /\ run[u].nRetryable = maxRetries => run[u].pc = "threw")
    /\ [][ \A u \in UnitIds : u \in DOMAIN run' => C13_Step(u) ]_vars

C13_Witness ==
    \E u \in UnitIds :
        /\ run[u].pc = "Failed" /\ run[u].req = "Create"
        /\ run[u].thrown = [name |-> "ResourceConflictException", inProgressMsg |-> FALSE]
        /\ faultsLeft = 0

Carries(failure, field, value) == field \in DOMAIN failure /\ failure[field] = value

\* C14: the error a failed unit's handler threw to the framework carries the
\* function ARN and the key of the unit, and the remote error.
C14_FailureCarriesContext ==
    \A u \in UnitIds :
        (run[u].pc = "Failed" /\ run[u].thrown \in Errors)
            => /\ Carries(run[u].thrown, "FunctionArn", units[u].FunctionArn)
               /\ Carries(run[u].thrown, "Key", units[u].Key)
               /\ \E e \in Errors : Carries(run[u].thrown, "name", e.name)

\* error.name is the structured kind of an error; every error the Lambda
\* client throws has one
hasStructuredKind(error) == error.name # ""

\* C15: a failure is retried (the unit sleeps after it) because of its
\* message text only when it has no structured kind; one that has a
\* structured kind is retried only when the kind is ResourceConflictException.
C15_ClassifiedByKind ==
    \A u \in UnitIds :
        run[u].pc = "sleep"
            => IF hasStructuredKind(run[u].lastErr)
               THEN run[u].lastErr.name = "ResourceConflictException"
               ELSE run[u].lastErr.inProgressMsg

TimedOut(u) == run[u].thrown = TimeoutError

SecondApply(u) ==
    /\ run[u].req = "Update" /\ run[u].pc = "write" /\ run'[u].pc = "returned"
    /\ units[u].old.Key = units[u].Key /\ units[u].old.Value = units[u].Value
    /\ writers[units[u].FunctionArn] = {u}

\* C17: the second of two Apply(k, v) of a unit with no write of anybody
\* else around them leaves the remote configuration as the first left it,
\* and the second invocation returns the identifier the first returned.
C17_ApplyIdempotent ==
    [][ \A u \in UnitIds :
          /\ SecondApply(u) => remote' = remote
          /\ (run[u].req = "Update" /\ run[u].pc = "returned"
                                    /\ run'[u].pc = "Succeeded")
                => run'[u].PhysicalResourceId = run[u].PhysicalResourceId ]_vars

C17_Witness ==
    \E u \in UnitIds :
        /\ run[u].req = "Update" /\ run[u].pc = "Succeeded"
        /\ units[u].old.Value = units[u].Value
        /\ writers[units[u].FunctionArn] = {u}
        /\ remote[units[u].FunctionArn]
              = WithEnvironment(SetKey(currentEnvVars(declared[units[u].FunctionArn].Environment),
                                       units[u].Key, units[u].Value))
        /\ DOMAIN remote[units[u].FunctionArn].Variables # {units[u].Key}

\* the accepted write of unit u's Remove, when nobody but u wrote the
\* function's configuration since it was deployed with C, and C lacks the key
RemoveAfterApply(u) ==
    /\ run[u].req = "Delete" /\ run[u].pc = "write" /\ run'[u].pc = "returned"
    /\ writers[units[u].FunctionArn] = {u}
    /\ units[u].Key \notin DOMAIN currentEnvVars(declared[units[u].FunctionArn].Environment)

\* C18: on a configuration C without the key, the Apply of a unit followed
\* by its Remove, with no write of anybody else around them, leaves the
\* variables of C: the Remove takes away the unit's key and nothing else.
C18_ApplyRemoveRoundTrip ==
    [][ \A u \in UnitIds :
          RemoveAfterApply(u)
             => LET fn == units[u].FunctionArn
                IN /\ currentEnvVars(remote'[fn]) = currentEnvVars(declared[fn].Environment)
                   /\ \A x \in Keys \ {units[u].Key} :
                         KeyState(remote'[fn], x) = KeyState(remote[fn], x)
                   /\ units[u].Key \in DOMAIN currentEnvVars(remote[fn])
                   /\ units[u].Key \notin DOMAIN currentEnvVars(remote'[fn]) ]_vars

C18_Witness ==
    \E u \in UnitIds :
        /\ run[u].req = "Delete" /\ run[u].pc = "returned"
        /\ writers[units[u].FunctionArn] = {u}
        /\ units[u].Key \notin DOMAIN currentEnvVars(declared[units[u].FunctionArn].Environment)
        /\ remote[units[u].FunctionArn] = WithEnvironment([x \in {"A"} |-> InitialValue])

Chain(i) == {u \in UnitIds : units[u].inst = i}

\* the unit's last invocation applied the properties it has now
Applied(u) ==
    /\ run[u].pc = "Succeeded"
    /\ \/ run[u].req = "Update"
       \/ run[u].req = "Create"
            /\ (units[u].old = NoProperties \/ units[u].old = Properties(units[u]))

\* C overridden by every pair of the desired set
Override(C, environment) ==
    LET ks == {environment[j][1] : j \in DOMAIN environment}
    IN [x \in (DOMAIN C) \cup ks |->
          IF x \in ks
          THEN environment[CHOOSE j \in DOMAIN environment : environment[j][1] = x][2]
          ELSE C[x]]

\* C19: when every unit of a construct's chain has succeeded under Apply and
\* nobody but the chain's units wrote the function's configuration since it
\* was deployed with C, the function's variables are C overridden by the
\* construct's environment: every desired key at its value, the other keys
\* of C as they were, no other key.
C19_ChainResult ==
    \A i \in DOMAIN instances :
        LET fn == instances[i].function
        IN (Chain(i) # {} /\ writers[fn] = Chain(i) /\ \A u \in Chain(i) : Applied(u))
            => currentEnvVars(remote[fn])
                  = Override(currentEnvVars(declared[fn].Environment),
                             instances[i].environment)

C19_Witness ==
    \E i \in DOMAIN instances :
        /\ Cardinality(Chain(i)) = 2
        /\ writers[instances[i].function] = Chain(i)
        /\ \A u \in Chain(i) : run[u].pc = "Succeeded" /\ run[u].req = "Create"
        /\ pass = "create"
        /\ declared[instances[i].function].Environment # NoEnvironment
        /\ "A" \in DOMAIN currentEnvVars(remote[instances[i].function])
        /\ remote[instances[i].function].Variables["A"] # InitialValue

\* the staleness token of the unit's function differs from the token of the
\* first pass
TokenChanged(u) ==
    LET fn == units[u].FunctionArn
    IN /\ pass = "update"
       /\ computeFunctionHash(fn, declared[fn])
             # computeFunctionHash(fn, [declared[fn] EXCEPT !.props = InitialProps])

\* C20: in a second pass with the same key and value but a different
\* staleness token, a unit is not up to date until it has been invoked with
\* Update; an Update returns only through an accepted write; so when the
\* pass ends with every unit succeeded, every such unit was invoked again
\* and, the chain being the only writer since the function was redeployed,
\* its key is at its value.
C20_StalenessForcing ==
    /\ [](\A u \in UnitIds :
            (TokenChanged(u) /\ run[u].pc = "Succeeded" /\ run[u].req = "Create")
                => /\ NeedsUpdate(u)
                   /\ units[u].FunctionHash # units[u].old.FunctionHash)
    /\ [][ \A u \in UnitIds :
             /\ (run[u].req = "Update" /\ run'[u].pc = "returned"
                                       /\ run[u].pc # "returned")
                   => run[u].pc = "write" /\ u \in writers'[units[u].FunctionArn]
             /\ (TokenChanged(u) /\ pass' = "delete"
                                 /\ \A v \in UnitIds : run[v].pc = "Succeeded")
                   => /\ run[u].req = "Update"
                      /\ writers[units[u].FunctionArn] = Chain(units[u].inst)
                            => KeyState(remote[units[u].FunctionArn], units[u].Key)
                                  = <<TRUE, units[u].Value>> ]_vars

C20_Witness ==
    \E i \in DOMAIN instances :
        /\ instances[i].function = "F1"
        /\ Cardinality(Chain(i)) = 2
        /\ \A u \in Chain(i) :
              /\ TokenChanged(u)
              /\ run[u].pc = "Succeeded" /\ run[u].req = "Update"
              /\ units[u].old.Value = units[u].Value
              /\ KeyState(remote["F1"], units[u].Key) = <<TRUE, units[u].Value>>
        /\ writers["F1"] = Chain(i) /\ writers["F2"] = {} /\ extLeft = 0

\* C21: all units of one construct's chain carry the same staleness token,
\* the one computed from the function's declared configuration at the
\* build, or none of them carries a token.
C21_SharedToken ==
    \A u, v \in UnitIds :
        SameChain(u, v)
            => /\ units[u].FunctionHash = units[v].FunctionHash
               /\ units[u].FunctionHash
                     = computeFunctionHash(units[u].FunctionArn,
                                           declared[units[u].FunctionArn])

C21_Witness ==
    \E u, v \in UnitIds :
        /\ u # v /\ SameChain(u, v)
        /\ pass = "update"
        /\ units[u].FunctionHash # NoHash
        /\ units[u].FunctionHash # units[u].old.FunctionHash
        /\ units[v].FunctionHash = units[u].FunctionHash

\* the two declarations have the same properties with the same values
SameDeclaration(p, q) == {p[j] : j \in DOMAIN p} = {q[j] : j \in DOMAIN q}

\* C22: a second build over a declared configuration with the same
\* properties and values as at the first build gives every unit the token
\* it had, whatever the order the properties are enumerated in.
C22_TokenOrderIndependent ==
    \A u \in UnitIds :
        (units[u].old # NoProperties
            /\ SameDeclaration(declared[units[u].FunctionArn].props, InitialProps))
            => units[u].FunctionHash = units[u].old.FunctionHash

\* C23: once a construct has been instantiated the stack has exactly one
\* provider singleton, whatever the number of instantiations; every unit of
\* every instance has its service token; its log retention is the one the
\* first instantiation gave (one week when it gave none).
C23_SingletonProvider ==
    /\ Len(children) = (IF instances = << >> THEN 0 ELSE 1)
    /\ \A u \in UnitIds : units[u].serviceToken = children[1].serviceToken
    /\ instances # << >>
          => children[1].logRetention
                = (IF instances[1].logRetention = "undefined"
                   THEN "ONE_WEEK" ELSE instances[1].logRetention)

C23_Witness ==
    /\ Len(instances) = 2
    /\ instances[1].logRetention = "undefined"
    /\ instances[2].logRetention = "ONE_MONTH"
    /\ children[1].logRetention = "ONE_WEEK"
    /\ \E u, v \in UnitIds :
          /\ units[u].inst = 1 /\ units[v].inst = 2
          /\ units[u].serviceToken = units[v].serviceToken

\* number of units of the constructs instantiated before construct i
UnitsBefore(i) == Cardinality({u \in UnitIds : units[u].inst < i})

C25_HandlerAuthorised ==
    \A i \in DOMAIN instances :
        \A action \in {"lambda:GetFunctionConfiguration",
                        "lambda:UpdateFunctionConfiguration"} :
            Allowed(action, instances[i].function)

StageOf(pc) ==
    CASE pc = "fetch" -> 0
      [] pc = "write" -> 1
      [] pc = "sleep" -> 2
      [] OTHER -> 3

Position(r) == 4 * r.attempt + StageOf(r.pc)

InLoop(u) == run[u].pc \in {"fetch", "write", "sleep"}

\* C28: one execute makes at most 10 attempts and at most 9 sleeps; every
\* step of its loop moves it strictly forward (so no sequence of remote
\* outcomes keeps it looping: at most 4 * 10 + 3 steps); it leaves the loop
\* only by returning right after a write the remote resource accepted or by
\* throwing the error of the failed call, never by the loop running out
\* after a sleep.
C28_BoundedTermination ==
    /\ [](\A u \in UnitIds :
            /\ run[u].attempt <= 10
            /\ Len(run[u].sleeps) <= 9
            /\ run[u].nFetch <= 10 /\ run[u].nWrite <= 10
            /\ InLoop(u) => Position(run[u]) <= 4 * 10 + 2)
    /\ [][ \A u \in UnitIds :
             (InLoop(u) /\ run'[u] # run[u])
                => \/ /\ Position(run'[u]) > Position(run[u])
                      /\ run'[u].pc \in {"fetch", "write", "sleep", "returned", "threw"}
                      /\ run'[u].pc = "returned"
                            => /\ run[u].pc = "write"
                               /\ run'[u].nWrite = run[u].nWrite + 1
                               /\ currentEnvVars(remote'[units[u].FunctionArn])
                                     = run'[u].written
                      /\ run'[u].pc = "threw"
                            => /\ run[u].pc \in {"fetch", "write"}
                               /\ run'[u].thrown \in Errors
                               /\ ~shouldRetry(run'[u].thrown, run[u].attempt)
                      /\ run'[u].pc = "fetch" => run[u].pc = "sleep"
                   \/ run[u].pc = "sleep" /\ TimedOut(u)' ]_vars

C28_Witness ==
    \E u \in UnitIds :
        /\ run[u].pc = "returned"
        /\ run[u].attempt = 10 /\ Len(run[u].sleeps) = 9
        /\ run[u].nRetryable = 9

\* The chain of construct i is complete and alone on its function: all its
\* units have succeeded under Apply and nobody else wrote the function's
\* configuration since it was deployed
AloneOnTarget(i) ==
    /\ Chain(i) # {}
    /\ writers[instances[i].function] = Chain(i)
    /\ \A u \in Chain(i) : Applied(u)

\* C29: a step of an execute on target T leaves the configuration of every
\* other target as it was; what it fetches is T's configuration and what it
\* writes is the merge of what it fetched from T; no unit is ever a writer
\* of another target. So when two constructs have different targets and each
\* chain is alone on its target, each target ends with its deployed
\* configuration overridden by its own construct's environment, whatever
\* the interleaving.
C29_TargetsIndependent ==
    /\ [](\A fn \in Targets : \A w \in writers[fn] :
              w = 0 \/ units[w].FunctionArn = fn)
    /\ [](\A i, k \in DOMAIN instances :
            (/\ instances[i].function # instances[k].function
             /\ AloneOnTarget(i) /\ AloneOnTarget(k))
               => \A n \in {i, k} :
                     currentEnvVars(remote[instances[n].function])
                        = Override(currentEnvVars(declared[instances[n].function].Environment),
                                   instances[n].environment))
    /\ [][ \A u \in UnitIds :
             LET T == units[u].FunctionArn
             IN (InLoop(u) /\ run'[u] # run[u])
                  => /\ \A fn \in Targets \ {T} :
                          remote'[fn] = remote[fn] /\ writers'[fn] = writers[fn]
                     /\ (run[u].pc = "fetch" /\ run'[u].pc = "write")
                          => run'[u].resp = remote[T]
                     /\ run'[u].pc = "returned"
                          => currentEnvVars(remote'[T])
                                = newEnvVars(run[u].cur, units[u].Key, units[u].Value,
                                             isDelete(u)) ]_vars

C29_Witness ==
    \E u, v \in UnitIds :
        /\ units[u].FunctionArn # units[v].FunctionArn
        /\ run[u].pc = "returned" /\ run[v].pc = "write"
        /\ currentEnvVars(remote[units[u].FunctionArn]) = run[u].written
        /\ run[v].cur = currentEnvVars(remote[units[v].FunctionArn])
        /\ run[u].written # run[v].cur

\* C30: a unit of a construct removed from the app (other constructs or the
\* singleton remaining) is invoked with Delete after the template, the
\* handler's role with it, was updated; throughout its attempt loop the
\* handler is allowed Get and UpdateFunctionConfiguration on the unit's
\* function, so every rejection of one of its calls is a failure of the
\* remote resource, never AccessDenied for lack of permission.
C30_PermissionAtRemoval ==
    /\ [](\A u \in UnitIds :
            (/\ pass = "delete" /\ instances[units[u].inst].removed
             /\ run[u].req = "Delete" /\ InLoop(u))
               => \A action \in HandlerActions : Allowed(action, units[u].FunctionArn))
    /\ [][ \A u \in UnitIds :
             (/\ pass = "delete" /\ instances[units[u].inst].removed
              /\ run[u].req = "Delete" /\ InLoop(u)
              /\ run'[u].lastErr # run[u].lastErr /\ run'[u].lastErr # NoError)
                => faultsLeft' < faultsLeft ]_vars

C30_Witness ==
    \E u, v \in UnitIds :
        /\ pass = "delete"
        /\ instances[units[u].inst].removed /\ ~instances[units[v].inst].removed
        /\ run[u].req = "Delete" /\ run[u].pc = "returned"
        /\ units[u].Key \notin DOMAIN currentEnvVars(remote[units[u].FunctionArn])
        /\ run[v].req = "Create" /\ run[v].pc = "Succeeded"

\* The unit is in a Delete invocation and none of its writes was accepted
\* since the function was deployed: its Apply never succeeded
RemoveWithoutApply(u) ==
    /\ run[u].req = "Delete"
    /\ u \notin writers[units[u].FunctionArn]

\* C31: the only thing that happens to a unit whose Create or Update failed
\* is its Delete invocation, which runs updateWithRetry from the fetch; the
\* Delete of a unit whose Apply never succeeded sends a write, the fetched
\* variables without the key, also when the key is not among them (the
\* accepted write then leaves the variables as fetched), and returns; it
\* ends otherwise only on a failed remote call.
C31_BestEffortRemoval ==
    [][ \A u \in UnitIds :
          LET T == units[u].FunctionArn
              k == units[u].Key
          IN /\ (run[u].pc = "Failed" /\ run[u].req # "Delete" /\ run'[u] # run[u])
                  => /\ pass = "delete"
                     /\ run'[u].req = "Delete" /\ run'[u].pc = "fetch"
                     /\ run'[u].nFetch = 0 /\ run'[u].nWrite = 0
             /\ (RemoveWithoutApply(u) /\ run[u].pc = "write" /\ run'[u] # run[u])
                  => \/ /\ run'[u].pc = "returned"
                        /\ run'[u].nWrite = run[u].nWrite + 1
                        /\ currentEnvVars(remote'[T]) = DeleteKey(run[u].cur, k)
                        /\ k \notin DOMAIN run[u].cur
                              => currentEnvVars(remote'[T]) = run[u].cur
                     \/ /\ run'[u].pc \in {"sleep", "threw"}
                        /\ run'[u].lastErr \in Errors
                        /\ remote' = remote
             /\ (RemoveWithoutApply(u) /\ run[u].pc = "fetch" /\ run'[u] # run[u])
                  => \/ run'[u].pc = "write" /\ run'[u].cur = currentEnvVars(remote[T])
                     \/ run'[u].pc \in {"sleep", "threw"} /\ run'[u].lastErr \in Errors
        ]_vars

C31_Witness ==
    \E u \in UnitIds :
        /\ run[u].req = "Delete" /\ run[u].pc = "returned"
        /\ run[u].nWrite = 1 /\ run[u].attempt = 1
        /\ writers[units[u].FunctionArn] = {u}
        /\ units[u].Key \notin DOMAIN run[u].cur
        /\ currentEnvVars(remote[units[u].FunctionArn]) = run[u].cur
        /\ declared[units[u].FunctionArn].Environment # NoEnvironment

\* The unit's function is imported: it has no default child in the app
Imported(u) == units[u].FunctionArn \notin CdkDefined

\* C32: no unit on an imported function carries a FunctionHash, in any
\* build; in a second pass after the function's configuration changed, such
\* a unit whose value is the same has the properties it had and is not
\* invoked with Update: only a changed value makes it run again.
C32_ImportedNoToken ==
    /\ [](\A u \in UnitIds :
            Imported(u)
               => /\ units[u].FunctionHash = NoHash
                  /\ Properties(units[u]).FunctionHash = NoHash
                  /\ (pass = "update" /\ units[u].Value = units[u].old.Value)
                        => ~NeedsUpdate(u))
    /\ [][ \A u \in UnitIds :
             (Imported(u) /\ run[u].req = "Create" /\ run'[u].req = "Update")
                => units[u].Value # units[u].old.Value ]_vars

C32_Witness ==
    \E u \in UnitIds :
        /\ Imported(u) /\ pass = "update"
        /\ declared[units[u].FunctionArn].props # InitialProps
        /\ units[u].Value = units[u].old.Value
        /\ run[u].req = "Create" /\ run[u].pc = "Succeeded"
        /\ units[u].Key \notin DOMAIN currentEnvVars(remote[units[u].FunctionArn])

\* C33: a step of an execute that changes the remote configuration is its
\* accepted write and ends the loop: the execute has returned and the unit
\* then ends Succeeded, it never throws afterwards; a step that sleeps or
\* throws changes nothing remote. So a first execute that is retrying, has
\* thrown or has ended Failed is no writer of its function: the
\* configuration holds no modification made by it.
C33_UnchangedOnError ==
    /\ [](\A u \in UnitIds :
            (/\ pass = "create" /\ run[u].req = "Create"
             /\ run[u].pc \in {"fetch", "write", "sleep", "threw", "Failed"})
               => u \notin writers[units[u].FunctionArn])
    /\ [][ \A u \in UnitIds :
             /\ (LocalsAlive(u) /\ run'[u] # run[u] /\ remote' # remote)
                   => /\ run[u].pc = "write" /\ run'[u].pc = "returned"
                      /\ run'[u].thrown = NoError
             /\ (run'[u].pc \in {"sleep", "threw"} /\ run'[u] # run[u])
                   => remote' = remote /\ writers' = writers
             /\ (run[u].pc = "returned" /\ run'[u] # run[u])
                   => run'[u].pc = "Succeeded" /\ remote' = remote ]_vars

C33_Witness ==
    \E u \in UnitIds :
        /\ run[u].req = "Create" /\ run[u].pc = "threw"
        /\ run[u].attempt = maxRetries /\ run[u].nWrite > 0
        /\ u \notin writers[units[u].FunctionArn]
        /\ remote[units[u].FunctionArn] = declared[units[u].FunctionArn].Environment

\* The accepted write of a Remove of a key that the function was deployed
\* with (value w) and that an Apply has since set to the unit's value v,
\* nobody having written between the Remove's fetch and its write
RemoveOfOverwritten(u) ==
    LET T == units[u].FunctionArn
        k == units[u].Key
    IN /\ run[u].req = "Delete" /\ run[u].pc = "write" /\ run'[u].pc = "returned"
       /\ KeyState(declared[T].Environment, k) = <<TRUE, InitialValue>>
       /\ KeyState(remote[T], k) = <<TRUE, units[u].Value>>
       /\ u \in writers[T]
       /\ run[u].cur = currentEnvVars(remote[T])

\* C34: on a configuration that held k with value w, Apply(k, v) followed by
\* Remove(k) leaves the configuration without k, w is not put back, and
\* every other key is as it was before the Remove.
C34_RemoveDoesNotRestore ==
    [][ \A u \in UnitIds :
          RemoveOfOverwritten(u)
             => LET T == units[u].FunctionArn
                    k == units[u].Key
                IN /\ k \notin DOMAIN currentEnvVars(remote'[T])
                   /\ KeyState(remote'[T], k) # KeyState(declared[T].Environment, k)
                   /\ \A x \in DOMAIN currentEnvVars(remote[T]) \ {k} :
                         KeyState(remote'[T], x) = KeyState(remote[T], x)
                   /\ DOMAIN currentEnvVars(remote'[T])
                         = DOMAIN currentEnvVars(remote[T]) \ {k} ]_vars

C34_Witness ==
    \E u \in UnitIds :
        LET T == units[u].FunctionArn
        IN /\ run[u].req = "Delete" /\ run[u].pc = "returned"
           /\ run[u].cur # run[u].written
           /\ KeyState(declared[T].Environment, units[u].Key) = <<TRUE, InitialValue>>
           /\ units[u].Key \notin DOMAIN currentEnvVars(remote[T])
           /\ DOMAIN currentEnvVars(remote[T]) # {}

RECURSIVE SumSeq(_)
SumSeq(s) == IF s = << >> THEN 0 ELSE Head(s) + SumSeq(Tail(s))

\* The milliseconds one execute has slept or is committed to sleep: the
\* sleeps that ended and the one in progress
Slept(u) ==
    SumSeq(run[u].sleeps) + (IF run[u].pc = "sleep" THEN run[u].delay ELSE 0)

\* C35: the backoff sleeps of one execute add up to at most
\* 10 + 20 + 7 * 40 = 310 seconds, less than the handler's timeout of 7
\* minutes: sleeping alone never reaches the timeout. An execute that met 10
\* conflicts has slept exactly 310 seconds and has thrown the last conflict
\* itself, and the unit ends Failed with that error, not with the timeout.
C35_BackoffFitsTimeout ==
    /\ [](\A u \in UnitIds :
            LocalsAlive(u)
               => /\ Slept(u) <= (10 + 20 + 7 * 40) * 1000
                  /\ Slept(u) < timeoutMinutes * 60 * 1000
                  /\ run[u].nRetryable = maxRetries
                        => /\ run[u].pc = "threw"
                           /\ SumSeq(run[u].sleeps) = 310000
                           /\ run[u].thrown = run[u].lastErr
                           /\ run[u].thrown # TimeoutError)
    /\ [][ \A u \in UnitIds :
             (run[u].nRetryable = maxRetries /\ run'[u] # run[u])
                => /\ run'[u].pc = "Failed"
                   /\ run'[u].thrown = run[u].thrown
                   /\ ~TimedOut(u)' ]_vars

C35_Witness ==
    \E u \in UnitIds :
        /\ run[u].pc = "threw" /\ run[u].nRetryable = maxRetries
        /\ Len(run[u].sleeps) = 9
        /\ SumSeq(run[u].sleeps) = 310000
        /\ run[u].thrown.name = "ResourceConflictException"

====
